---- MODULE Spec2Model ----
(***************************************************************************)
(* The allocations pallet (pallets/allocations/src/lib.rs): a budget       *)
(* CoinsLeft that the members of Oracles draw down through submit_reward,  *)
(* and the two membership hooks that overwrite Oracles.                    *)
(***************************************************************************)
EXTENDS Integers, Sequences, FiniteSets, TLC

\* ------------------------------------------------------------------ bounds
\* largest genesis value of CoinsLeft
MaxBudget == 2
\* longest member list handed to the membership hooks
MaxOracles == 2

\* ------------------------------------------------------- program constants
ORACLE == 0
NON_ORACLE == 1
REWARD_TARGET == 2

AccountId == {ORACLE, NON_ORACLE, REWARD_TARGET}

Hash == {"h1", "h2"}

\* the account rewards are sent to
Recipients == {REWARD_TARGET}

\* amounts a caller may pass: everything up to one more than any budget
Balance == 0 .. (MaxBudget + 1)

\* system::RawOrigin: Root, Signed(AccountId), None
Origin == {<<"Root">>, <<"None">>} \cup {<<"Signed", a>> : a \in AccountId}

RECURSIVE SeqsUpTo(_, _)
SeqsUpTo(S, n) ==
    IF n = 0 THEN {<<>>}
    ELSE LET shorter == SeqsUpTo(S, n - 1)
         IN  shorter \cup {Append(s, x) : s \in shorter, x \in S}

\* the accounts the membership authority picks oracles from
Candidates == {ORACLE, NON_ORACLE}

\* the slices the membership authority may hand over (unsorted and
\* duplicated ones included: the pallet does not check them)
MemberLists == SeqsUpTo(Candidates, MaxOracles)

\* the incoming / outgoing deltas handed over with a slice: nothing, or one
\* candidate, whether or not that agrees with the slice
DeltaLists == {<<>>} \cup {<<a>> : a \in Candidates}

\* ------------------------------------------------------------------- state
VARIABLES
    Oracles,      \* storage Oracles: Vec<AccountId>
    CoinsLeft,    \* storage CoinsLeft: BalanceOf<T>
    genesis,      \* GenesisConfig.coins_left the chain was built with
    free_balance, \* Currency: free balance of every account
    rewarded,     \* imbalances handed to T::Reward::on_unbalanced, in order
    events,       \* RewardAllocated events deposited, in order
    call,         \* the last dispatched call and its arguments
    result,       \* what the last call returned
    effects,      \* the writes and outside calls the last call made, in order
    last_members  \* what the membership authority did last: whether it has
                  \* written at all, the slice it handed over and the members
                  \* that slice dropped

vars == <<Oracles, CoinsLeft, genesis, free_balance, rewarded, events,
          call, result, effects, last_members>>

\* --------------------------------------------------------------- helpers
Ok(v) == <<"Ok", v>>

Err(e) == <<"Err", e>>

IsErr(r) == r[1] = "Err"

\* Vec::contains
contains(vec, x) == \E i \in 1 .. Len(vec) : vec[i] = x

\* variant: an empty set is read as "no restriction"
is_oracle_open(who) == Oracles = <<>> \/ contains(Oracles, who)

is_oracle(who) == contains(Oracles, who)

ensure_signed(origin) ==
    IF origin[1] = "Signed" THEN Ok(origin[2]) ELSE Err("BadOrigin")

\* variant: the membership test is left out, any signed caller passes
ensure_oracle_signed_only(origin) ==
    LET sender == ensure_signed(origin)
    IN  IF IsErr(sender) THEN sender ELSE Ok("unit")

\* variant: every failure, a bad origin included, is reported as a denial
ensure_oracle_maps_error(origin) ==
    LET sender == ensure_signed(origin)
    IN  IF IsErr(sender) THEN Err("OracleAccessDenied")
        ELSE IF ~is_oracle(sender[2]) THEN Err("OracleAccessDenied")
        ELSE Ok("unit")

ensure_oracle(origin) ==
    LET sender == ensure_signed(origin)
    IN  IF IsErr(sender) THEN sender
        ELSE IF ~is_oracle(sender[2]) THEN Err("OracleAccessDenied")
        ELSE Ok("unit")

\* variant: the comparison lets zero through
amount_is_positive_or_zero(amount) == amount >= 0

\* ensure!(amount > 0.into(), ZeroAllocation)
amount_is_positive(amount) == amount > 0

\* variant: the budget test is left out
coins_cover_always(amount) == TRUE

\* variant: the budget test is strict
coins_cover_strict(amount) == CoinsLeft > amount

\* ensure!(<CoinsLeft<T>>::get() >= amount, TooManyCoinsToAllocate)
coins_cover(amount) == CoinsLeft >= amount

\* variant: checked_add written for checked_sub
checked_sub_as_add(a, b) == <<"Some", a + b>>

\* CheckedSub on an unsigned balance: None when the result would be negative
checked_sub(a, b) == IF a >= b THEN <<"Some", a - b>> ELSE <<"None">>

\* Currency::deposit_creating: credits who and returns the positive
\* imbalance that stands for the newly created supply
deposit_creating(who, value) ==
    [free |-> [free_balance EXCEPT ![who] = @ + value], imbalance |-> value]

\* variant: other is dropped instead of merged
subsume_drop(self, other) == self

\* Imbalance::subsume: merge other into self
subsume(self, other) == self + other

RewardAllocated(who, amount, merkle_root_hash) ==
    <<who, amount, merkle_root_hash>>

\* a dispatchable that returns an error, having written nothing so far
Fail(e) ==
    /\ result' = e
    /\ effects' = <<>>
    /\ UNCHANGED <<Oracles, CoinsLeft, free_balance, rewarded, events>>

\* ------------------------------------------------------------- operations
\* variant: the debit is a plain subtraction and nothing compares the amount
\* with the budget first
submit_reward_unchecked(origin, merkle_root_hash, who, amount) ==
    LET auth == ensure_oracle(origin)
    IN  IF IsErr(auth) THEN Fail(auth[2])
        ELSE IF ~amount_is_positive(amount) THEN Fail("ZeroAllocation")
        ELSE LET r == deposit_creating(who, amount)
                 total_imbalance == subsume(0, r.imbalance)
             IN  /\ CoinsLeft' = CoinsLeft - amount
                 /\ free_balance' = r.free
                 /\ rewarded' = Append(rewarded, total_imbalance)
                 /\ events' = Append(events,
                        RewardAllocated(who, amount, merkle_root_hash))
                 /\ result' = "Ok"
                 /\ effects' = <<"put_coins_left", "deposit_creating",
                                 "on_unbalanced", "deposit_event">>
                 /\ UNCHANGED Oracles

\* variant: the amount > 0 test comes after the debit, the mint and the event
submit_reward_late_check(origin, merkle_root_hash, who, amount) ==
    LET auth == ensure_oracle(origin)
    IN  IF IsErr(auth) THEN Fail(auth[2])
        ELSE IF ~coins_cover(amount) THEN Fail("TooManyCoinsToAllocate")
        ELSE LET left == checked_sub(CoinsLeft, amount)
             IN  IF left[1] = "None" THEN Fail("Underflow computing coins left")
                 ELSE LET r == deposit_creating(who, amount)
                          total_imbalance == subsume(0, r.imbalance)
                      IN  /\ CoinsLeft' = left[2]
                          /\ free_balance' = r.free
                          /\ rewarded' = Append(rewarded, total_imbalance)
                          /\ events' = Append(events,
                                 RewardAllocated(who, amount, merkle_root_hash))
                          /\ result' = IF amount_is_positive(amount)
                                       THEN "Ok" ELSE "ZeroAllocation"
                          /\ effects' = <<"put_coins_left", "deposit_creating",
                                          "on_unbalanced", "deposit_event">>
                          /\ UNCHANGED Oracles

\* variant: the event is deposited before the debit and the mint
submit_reward_event_first(origin, merkle_root_hash, who, amount) ==
    LET auth == ensure_oracle(origin)
    IN  IF IsErr(auth) THEN Fail(auth[2])
        ELSE IF ~amount_is_positive(amount) THEN Fail("ZeroAllocation")
        ELSE IF ~coins_cover(amount) THEN Fail("TooManyCoinsToAllocate")
        ELSE LET left == checked_sub(CoinsLeft, amount)
             IN  IF left[1] = "None" THEN Fail("Underflow computing coins left")
                 ELSE LET r == deposit_creating(who, amount)
                          total_imbalance == subsume(0, r.imbalance)
                      IN  /\ CoinsLeft' = left[2]
                          /\ free_balance' = r.free
                          /\ rewarded' = Append(rewarded, total_imbalance)
                          /\ events' = Append(events,
                                 RewardAllocated(who, amount, merkle_root_hash))
                          /\ result' = "Ok"
                          /\ effects' = <<"deposit_event", "put_coins_left",
                                          "deposit_creating", "on_unbalanced">>
                          /\ UNCHANGED Oracles

\* variant: the amount is validated before the caller
submit_reward_amount_first(origin, merkle_root_hash, who, amount) ==
    IF ~amount_is_positive(amount) THEN Fail("ZeroAllocation")
    ELSE IF ~coins_cover(amount) THEN Fail("TooManyCoinsToAllocate")
    ELSE LET auth == ensure_oracle(origin)
         IN  IF IsErr(auth) THEN Fail(auth[2])
             ELSE LET left == checked_sub(CoinsLeft, amount)
                  IN  IF left[1] = "None"
                      THEN Fail("Underflow computing coins left")
                      ELSE LET r == deposit_creating(who, amount)
                               total_imbalance == subsume(0, r.imbalance)
                           IN  /\ CoinsLeft' = left[2]
                               /\ free_balance' = r.free
                               /\ rewarded' = Append(rewarded, total_imbalance)
                               /\ events' = Append(events,
                                      RewardAllocated(who, amount,
                                                      merkle_root_hash))
                               /\ result' = "Ok"
                               /\ effects' = <<"put_coins_left",
                                               "deposit_creating",
                                               "on_unbalanced", "deposit_event">>
                               /\ UNCHANGED Oracles

submit_reward(origin, merkle_root_hash, who, amount) ==
    LET auth == ensure_oracle(origin)
    IN  IF IsErr(auth) THEN Fail(auth[2])
        ELSE IF ~amount_is_positive(amount) THEN Fail("ZeroAllocation")
        ELSE IF ~coins_cover(amount) THEN Fail("TooManyCoinsToAllocate")
        ELSE LET left == checked_sub(CoinsLeft, amount)
             IN  IF left[1] = "None" THEN Fail("Underflow computing coins left")
                 ELSE LET r == deposit_creating(who, amount)
                          total_imbalance == subsume(0, r.imbalance)
                      IN  /\ CoinsLeft' = left[2]
                          /\ free_balance' = r.free
                          /\ rewarded' = Append(rewarded, total_imbalance)
                          /\ events' = Append(events,
                                 RewardAllocated(who, amount, merkle_root_hash))
                          /\ result' = "Ok"
                          /\ effects' = <<"put_coins_left", "deposit_creating",
                                          "on_unbalanced", "deposit_event">>
                          /\ UNCHANGED Oracles

\* variant: the deltas are applied to the stored set and new is ignored
change_members_sorted_deltas(incoming, outgoing, new) ==
    /\ Oracles' = SelectSeq(Oracles, LAMBDA a : ~contains(outgoing, a)) \o incoming
    /\ result' = "Ok"
    /\ effects' = <<"put_oracles">>
    /\ UNCHANGED <<CoinsLeft, free_balance, rewarded, events>>

\* variant: new is appended to the stored set
change_members_sorted_extend(incoming, outgoing, new) ==
    /\ Oracles' = Oracles \o new
    /\ result' = "Ok"
    /\ effects' = <<"put_oracles">>
    /\ UNCHANGED <<CoinsLeft, free_balance, rewarded, events>>

change_members_sorted(incoming, outgoing, new) ==
    /\ Oracles' = new
    /\ result' = "Ok"
    /\ effects' = <<"put_oracles">>
    /\ UNCHANGED <<CoinsLeft, free_balance, rewarded, events>>

\* variant: guarded, a set that is already there is kept
initialize_members_once(init) ==
    /\ Oracles' = IF Oracles = <<>> THEN init ELSE Oracles
    /\ result' = "Ok"
    /\ effects' = <<"put_oracles">>
    /\ UNCHANGED <<CoinsLeft, free_balance, rewarded, events>>

\* variant: setting the members up also sets the budget up again
initialize_members_refill(init) ==
    /\ Oracles' = init
    /\ CoinsLeft' = genesis
    /\ result' = "Ok"
    /\ effects' = <<"put_oracles", "put_coins_left">>
    /\ UNCHANGED <<free_balance, rewarded, events>>

initialize_members(init) ==
    /\ Oracles' = init
    /\ result' = "Ok"
    /\ effects' = <<"put_oracles">>
    /\ UNCHANGED <<CoinsLeft, free_balance, rewarded, events>>

\* ---------------------------------------------------------- specification
Init ==
    /\ Oracles = <<>>
    /\ genesis \in 0 .. MaxBudget
    /\ CoinsLeft = genesis
    /\ free_balance = [a \in AccountId |-> 0]
    /\ rewarded = <<>>
    /\ events = <<>>
    /\ call = <<"genesis">>
    /\ result = "Ok"
    /\ effects = <<>>
    /\ last_members = [written |-> FALSE, new |-> <<>>, removed |-> {}]

\* the members of the stored set that the slice new no longer holds
Dropped(new) == {a \in AccountId : contains(Oracles, a) /\ ~contains(new, a)}

SubmitReward ==
    \E origin \in Origin, merkle_root_hash \in Hash,
       who \in Recipients, amount \in Balance :
        /\ call' = <<"submit_reward", origin, merkle_root_hash, who, amount>>
        /\ submit_reward(origin, merkle_root_hash, who, amount)
        /\ UNCHANGED <<genesis, last_members>>

ChangeMembersSorted ==
    \E incoming \in DeltaLists, outgoing \in DeltaLists, new \in MemberLists :
        /\ call' = <<"change_members_sorted", incoming, outgoing, new>>
        /\ change_members_sorted(incoming, outgoing, new)
        /\ last_members' = [written |-> TRUE, new |-> new,
                            removed |-> Dropped(new)]
        /\ UNCHANGED genesis

InitializeMembers ==
    \E init \in MemberLists :
        /\ call' = <<"initialize_members", init>>
        /\ initialize_members(init)
        /\ last_members' = [written |-> TRUE, new |-> init,
                            removed |-> Dropped(init)]
        /\ UNCHANGED genesis

Next == SubmitReward \/ ChangeMembersSorted \/ InitializeMembers

Spec == Init /\ [][Next]_vars

\* ------------------------------------------------------------- properties
IsSubmit(c) == c[1] = "submit_reward"

SignedCall(c) == c[2][1] = "Signed"

Sender(c) == c[2][2]

Amount(c) == c[5]

\* a submit_reward call made by a signed caller who is in the stored set
OracleCall(c) == IsSubmit(c) /\ SignedCall(c) /\ is_oracle(Sender(c))

\* C1: the stored budget CoinsLeft is never negative, whatever the genesis
\* budget and whatever calls were made.
C1_BudgetNeverNegative == CoinsLeft >= 0

\* an over-budget claim was refused after part of the budget was spent
C1_Witness ==
    /\ IsSubmit(call)
    /\ result = "TooManyCoinsToAllocate"
    /\ Amount(call) > CoinsLeft
    /\ CoinsLeft < genesis

\* C2: a submit_reward by a signed caller who is not in Oracles returns
\* OracleAccessDenied and leaves CoinsLeft as it was, for every recipient,
\* hash and amount.
C2_NonOracleDenied ==
    [][(IsSubmit(call') /\ SignedCall(call') /\ ~is_oracle(Sender(call')))
         => (result' = "OracleAccessDenied" /\ CoinsLeft' = CoinsLeft)]_vars

\* a non-member was denied a claim the budget would have covered, while the
\* set had members
C2_Witness ==
    /\ IsSubmit(call)
    /\ result = "OracleAccessDenied"
    /\ Oracles # <<>>
    /\ Amount(call) > 0
    /\ Amount(call) <= CoinsLeft

\* C3: a submit_reward by an oracle for more than the current CoinsLeft
\* returns TooManyCoinsToAllocate and leaves CoinsLeft as it was, in every
\* reachable state.
C3_OverBudgetRejected ==
    [][(OracleCall(call') /\ Amount(call') > CoinsLeft)
         => (result' = "TooManyCoinsToAllocate" /\ CoinsLeft' = CoinsLeft)]_vars

\* the refusal happened after an earlier claim had been paid, with budget left
C3_Witness ==
    /\ IsSubmit(call)
    /\ result = "TooManyCoinsToAllocate"
    /\ CoinsLeft > 0
    /\ CoinsLeft < genesis
    /\ events # <<>>

\* C4: a submit_reward by an oracle for amount 0 returns ZeroAllocation and
\* leaves CoinsLeft as it was; every accepted claim has amount > 0.
C4_ZeroRejected ==
    [][IsSubmit(call') =>
         /\ (OracleCall(call') /\ Amount(call') = 0)
              => (result' = "ZeroAllocation" /\ CoinsLeft' = CoinsLeft)
         /\ result' = "Ok" => Amount(call') > 0]_vars

C4_Witness ==
    /\ IsSubmit(call)
    /\ result = "ZeroAllocation"
    /\ Amount(call) = 0
    /\ is_oracle(Sender(call))

\* C5: a submit_reward by an oracle with 0 < amount <= CoinsLeft succeeds,
\* lowers CoinsLeft by amount, raises the recipient's balance by amount and
\* appends exactly the event RewardAllocated(recipient, amount, hash).
C5_SuccessfulDebit ==
    [][(OracleCall(call') /\ 0 < Amount(call') /\ Amount(call') <= CoinsLeft)
         => /\ result' = "Ok"
            /\ CoinsLeft' = CoinsLeft - Amount(call')
            /\ free_balance'[call'[4]] = free_balance[call'[4]] + Amount(call')
            /\ events' = Append(events, <<call'[4], Amount(call'), call'[3]>>)]_vars

\* a paid claim that took the whole remaining budget, to a recipient who
\* already held a balance
C5_Witness ==
    /\ IsSubmit(call)
    /\ result = "Ok"
    /\ CoinsLeft = 0
    /\ free_balance[call[4]] > Amount(call)
    /\ events[Len(events)] = <<call[4], Amount(call), call[3]>>

\* C6: a submit_reward that returns an error leaves the budget, the oracle
\* set, every balance, the reward hook's inputs and the event log as they
\* were.
C6_FailureChangesNothing ==
    [][(IsSubmit(call') /\ result' # "Ok")
         => UNCHANGED <<CoinsLeft, Oracles, free_balance, rewarded, events>>]_vars

\* a refused claim in a state that has members, balances and events
C6_Witness ==
    /\ IsSubmit(call)
    /\ result \in {"BadOrigin", "OracleAccessDenied", "ZeroAllocation",
                   "TooManyCoinsToAllocate"}
    /\ Oracles # <<>>
    /\ events # <<>>
    /\ CoinsLeft > 0

\* C7: after change_members_sorted(incoming, outgoing, new) an identity is an
\* oracle exactly when it occurs in new, whatever the set was before and
\* whatever incoming and outgoing hold.
C7_ReplaceSemantics ==
    call[1] = "change_members_sorted"
        => \A x \in AccountId : is_oracle(x) <=> contains(call[4], x)

\* an empty new set dropped a member although incoming named one
C7_Witness ==
    /\ call[1] = "change_members_sorted"
    /\ call[4] = <<>>
    /\ call[2] # <<>>
    /\ call[3] = <<>>
    /\ last_members.removed # {}

\* C8: no step raises CoinsLeft, and a step lowers it only when it is a
\* submit_reward that succeeded.
C8_BudgetMonotone ==
    [][/\ CoinsLeft' <= CoinsLeft
       /\ CoinsLeft' < CoinsLeft => (IsSubmit(call') /\ result' = "Ok")]_vars

\* a membership call ran after part of the budget was spent
C8_Witness ==
    /\ call[1] \in {"change_members_sorted", "initialize_members"}
    /\ CoinsLeft < genesis

\* C9: submit_reward succeeds only for a caller in the set the most recent
\* membership call wrote; a caller that set does not hold is denied, and a
\* caller it holds can claim at once.
C9_AuthorizationFollowsMembership ==
    [][IsSubmit(call') =>
         /\ Oracles = last_members.new
         /\ result' = "Ok"
              => (SignedCall(call') /\ contains(last_members.new, Sender(call')))
         /\ (SignedCall(call') /\ ~contains(last_members.new, Sender(call')))
              => result' = "OracleAccessDenied"
         /\ (SignedCall(call') /\ contains(last_members.new, Sender(call'))
               /\ 0 < Amount(call') /\ Amount(call') <= CoinsLeft)
              => result' = "Ok"]_vars

\* the caller the last membership call removed was denied a claim the budget
\* would have covered
C9_Witness ==
    /\ IsSubmit(call)
    /\ SignedCall(call)
    /\ Sender(call) \in last_members.removed
    /\ result = "OracleAccessDenied"
    /\ Amount(call) > 0
    /\ Amount(call) <= CoinsLeft

\* C10: after initialize_members(init) the stored set is init, also when a
\* set was there before: an identity is an oracle exactly when init holds it.
C10_InitializeOverwrites ==
    call[1] = "initialize_members"
        => /\ Oracles = call[2]
           /\ \A x \in AccountId : is_oracle(x) <=> contains(call[2], x)
           /\ result = "Ok"

\* a later initialize_members dropped a member of the set it found
C10_Witness ==
    /\ call[1] = "initialize_members"
    /\ last_members.removed # {}
    /\ call[2] # <<>>

IsMembershipCall(c) == c[1] \in {"change_members_sorted", "initialize_members"}

\* the place of effect e in the last call's effects, 0 when it did not happen
Place(e) ==
    IF \E i \in 1 .. Len(effects) : effects[i] = e
    THEN CHOOSE i \in 1 .. Len(effects) : effects[i] = e
    ELSE 0

RECURSIVE SumAmounts(_)
SumAmounts(log) ==
    IF log = <<>> THEN 0 ELSE log[1][2] + SumAmounts(Tail(log))

\* C12: initialize_members and change_members_sorted return Ok and change
\* nothing but Oracles (budget, balances, reward hook inputs and event log
\* stay); submit_reward never changes Oracles, whether it succeeds or fails.
C12_FrameConditions ==
    [][/\ IsMembershipCall(call')
            => /\ result' = "Ok"
               /\ UNCHANGED <<CoinsLeft, free_balance, rewarded, events>>
       /\ IsSubmit(call') => Oracles' = Oracles]_vars

\* a membership call that changed the set ran in a state with a spent budget,
\* a balance and an event to keep
C12_Witness ==
    /\ IsMembershipCall(call)
    /\ last_members.removed # {}
    /\ CoinsLeft < genesis
    /\ free_balance[REWARD_TARGET] > 0
    /\ events # <<>>

\* C13: the reward hook gets one imbalance per successful submit_reward, of
\* the claim's amount and positive, and none for a failed call: the hook's
\* inputs match the event log one for one.
C13_RewardHookOncePerSuccess ==
    [][/\ (IsSubmit(call') /\ result' = "Ok")
            => (rewarded' = Append(rewarded, Amount(call')) /\ Amount(call') > 0)
       /\ (IsSubmit(call') /\ result' # "Ok") => rewarded' = rewarded
       /\ IsMembershipCall(call') => rewarded' = rewarded
       /\ Len(rewarded') = Len(events')
       /\ \A i \in 1 .. Len(rewarded') : rewarded'[i] = events'[i][2]]_vars

\* two claims were paid and the hook saw both amounts
C13_Witness ==
    /\ IsSubmit(call)
    /\ result = "Ok"
    /\ Len(rewarded) = 2
    /\ rewarded[2] = Amount(call)

\* C14: a successful submit_reward debits CoinsLeft first, then mints and
\* calls the reward hook, then deposits the event; a failed one has no
\* effect at all.
C14_EffectOrder ==
    IsSubmit(call) =>
        IF result = "Ok"
        THEN /\ Len(effects) = 4
             /\ 0 < Place("put_coins_left")
             /\ Place("put_coins_left") < Place("deposit_creating")
             /\ Place("deposit_creating") < Place("on_unbalanced")
             /\ Place("on_unbalanced") < Place("deposit_event")
        ELSE effects = <<>>

\* a paid claim whose four effects are on record
C14_Witness ==
    /\ IsSubmit(call)
    /\ result = "Ok"
    /\ Place("deposit_event") = 4
    /\ Place("put_coins_left") = 1

\* C15: errors come in the order origin, membership, amount > 0, budget: a
\* signed non-oracle is denied whatever the amount, an oracle asking for 0
\* gets ZeroAllocation whatever the budget, and TooManyCoinsToAllocate goes
\* only to an oracle asking for more than 0.
C15_ErrorPrecedence ==
    [][IsSubmit(call') =>
         /\ (SignedCall(call') /\ ~is_oracle(Sender(call')))
              => result' = "OracleAccessDenied"
         /\ (OracleCall(call') /\ Amount(call') = 0)
              => result' = "ZeroAllocation"
         /\ result' = "TooManyCoinsToAllocate"
              => (OracleCall(call') /\ Amount(call') > 0)]_vars

\* a non-oracle asked for 0, which an oracle would have been refused for too
C15_Witness ==
    /\ IsSubmit(call)
    /\ SignedCall(call)
    /\ result = "OracleAccessDenied"
    /\ Amount(call) = 0
    /\ Oracles # <<>>

\* C16: CoinsLeft plus the amounts of all RewardAllocated events so far is
\* the genesis budget, so the total allocated never exceeds it.
C16_Conservation ==
    /\ CoinsLeft + SumAmounts(events) = genesis
    /\ SumAmounts(events) <= genesis

\* two claims were paid and together they used up the genesis budget
C16_Witness ==
    /\ Len(events) = 2
    /\ SumAmounts(events) = genesis
    /\ CoinsLeft = 0

\* C17: an oracle's claim for exactly CoinsLeft (> 0) succeeds and leaves 0;
\* from CoinsLeft = 0 on, no submit_reward succeeds and CoinsLeft stays 0.
C17_BoundaryAndExhaustion ==
    [][/\ (OracleCall(call') /\ Amount(call') = CoinsLeft /\ CoinsLeft > 0)
            => (result' = "Ok" /\ CoinsLeft' = 0)
       /\ CoinsLeft = 0
            => /\ CoinsLeft' = 0
               /\ IsSubmit(call') => result' # "Ok"]_vars

\* an oracle was refused after the budget had been used up
C17_Witness ==
    /\ IsSubmit(call)
    /\ SignedCall(call)
    /\ is_oracle(Sender(call))
    /\ result \in {"ZeroAllocation", "TooManyCoinsToAllocate"}
    /\ CoinsLeft = 0
    /\ genesis > 0

\* C18: submit_reward from an origin that is not signed returns the host's
\* BadOrigin, never a pallet error and never Ok, and changes nothing,
\* whatever the set, the amount and the budget.
C18_UnsignedOriginRejected ==
    [][(IsSubmit(call') /\ ~SignedCall(call'))
         => /\ result' = "BadOrigin"
            /\ effects' = <<>>
            /\ UNCHANGED <<CoinsLeft, Oracles, free_balance, rewarded, events>>]_vars

\* Root or None asked for an amount the budget covers while the set had
\* members
C18_Witness ==
    /\ IsSubmit(call)
    /\ ~SignedCall(call)
    /\ result = "BadOrigin"
    /\ Oracles # <<>>
    /\ Amount(call) > 0
    /\ Amount(call) <= CoinsLeft

\* C19: until a membership call has run, Oracles is empty, nobody is an
\* oracle, and every signed submit_reward is denied, whatever the genesis
\* budget and the amount.
C19_DefaultDeny ==
    ~last_members.written =>
        /\ Oracles = <<>>
        /\ \A x \in AccountId : ~is_oracle(x)
        /\ (IsSubmit(call) /\ SignedCall(call)) => result = "OracleAccessDenied"
        /\ CoinsLeft = genesis

\* before any membership call, a signed caller asked for an amount the
\* genesis budget covers
C19_Witness ==
    /\ ~last_members.written
    /\ IsSubmit(call)
    /\ SignedCall(call)
    /\ result = "OracleAccessDenied"
    /\ Amount(call) > 0
    /\ Amount(call) <= genesis

\* C20: submit_reward never returns the checked_sub failure "Underflow
\* computing coins left": it returns Ok, BadOrigin or one of the three
\* pallet errors.
C20_UnderflowUnreachable ==
    /\ result # "Underflow computing coins left"
    /\ result \in {"Ok", "BadOrigin", "OracleAccessDenied", "ZeroAllocation",
                   "TooManyCoinsToAllocate"}

\* the debit ran at its edge: one claim took the whole genesis budget
C20_Witness ==
    /\ IsSubmit(call)
    /\ result = "Ok"
    /\ Amount(call) = genesis
    /\ Len(events) = 1
    /\ CoinsLeft = 0

====
